---- MODULE Spec2Model ----
(***************************************************************************)
(* The pre-deployment registrar of safe-singleton-factory, in its two      *)
(* variants:                                                               *)
(*   "explicit"  src/scripts/add-predeployment.ts  (RPC from environment,  *)
(*               SKIP_CHAINLIST_CHECK bypass, PredeploymentError comments) *)
(*   "registry"  src/unnamed/part_000              (RPC from the chainlist *)
(*               entry, registry mandatory, plain Error messages)          *)
(* One invocation of addPredeployment is a sequence of steps, one per      *)
(* statement group between two suspension / failure points.  The disk      *)
(* (artifact directories and files) persists across invocations.           *)
(***************************************************************************)
EXTENDS Integers, Sequences, FiniteSets, TLC

VARIABLES
    pc,            \* position of the running invocation
    variant,       \* which of the two scripts is running
    CHAIN_ID,      \* process.env.CHAIN_ID, as read by the validator
    RPC,           \* process.env.RPC, as read by the explicit variant
    SKIP_CHAINLIST_CHECK, \* process.env.SKIP_CHAINLIST_CHECK, as read (explicit)
    SUMMARY_FILE,  \* process.env.SUMMARY_FILE, as read in the finally block
    chainId,       \* const chainId = parseInt(chainIdStr, 10)
    rpcUrl,        \* const rpcUrl
    response,      \* what fetch("https://chainlist.org/rpcs.json") gave
    node,          \* what the JSON-RPC endpoint gave
    error,         \* the exception thrown by verifyAndAddPredeployment
    summary,       \* let summary
    console,       \* the {status, body} object logged by fetchChainlist
    summaryOut,    \* the file written at SUMMARY_FILE by this invocation
    exitCode,      \* process.exitCode
    dirs,          \* artifact directories on disk
    files,         \* artifact files on disk: path -> content
    dirsAtStart,   \* history: dirs when the invocation started
    filesAtStart,  \* history: files when the invocation started
    passed,        \* history: validation steps that succeeded in this run
    wrote          \* history: this run executed the artifact writeFileSync

vars == <<pc, variant, CHAIN_ID, RPC, SKIP_CHAINLIST_CHECK, SUMMARY_FILE,
          chainId, rpcUrl, response, node, error, summary, console,
          summaryOut, exitCode, dirs, files, dirsAtStart, filesAtStart,
          passed, wrote>>

(***************************************************************************)
(* Bounds                                                                  *)
(***************************************************************************)
MaxRegistryLen == 1   \* entries in a fetched chainlist
MaxRpcLen == 2        \* URLs in one entry's rpc list

(***************************************************************************)
(* Strings are sequences of one-character strings, so that parseInt and    *)
(* startsWith can be computed as the runtime computes them.                *)
(***************************************************************************)
Range(s) == {s[i] : i \in 1..Len(s)}

Digits == <<"0", "1", "2", "3", "4", "5", "6", "7", "8", "9">>

IsDigit(c) == c \in Range(Digits)

DigitVal(c) == (CHOOSE i \in 1..Len(Digits) : Digits[i] = c) - 1

Whitespace == {" "}

\* an environment variable: unset (undefined) or set to a string
Unset == [set |-> FALSE, v |-> <<>>]

EnvStr(s) == [set |-> TRUE, v |-> s]

\* JavaScript truthiness of string | undefined
Truthy(e) == e.set /\ e.v # <<>>

RECURSIVE SkipWhitespace(_)
SkipWhitespace(s) ==
    IF s # <<>> /\ Head(s) \in Whitespace THEN SkipWhitespace(Tail(s)) ELSE s

RECURSIVE DigitPrefix(_)
DigitPrefix(s) ==
    IF s # <<>> /\ IsDigit(Head(s)) THEN <<Head(s)>> \o DigitPrefix(Tail(s))
    ELSE <<>>

RECURSIVE DecimalValue(_)
DecimalValue(ds) ==
    IF ds = <<>> THEN 0
    ELSE 10 * DecimalValue(SubSeq(ds, 1, Len(ds) - 1)) + DigitVal(ds[Len(ds)])

NaN == [nan |-> TRUE, val |-> 0]

\* parseInt(string, 10): leading whitespace skipped, optional sign, then the
\* longest prefix of decimal digits; NaN when that prefix is empty
parseInt(s) ==
    LET t    == SkipWhitespace(s)
        neg  == t # <<>> /\ Head(t) = "-"
        body == IF t # <<>> /\ Head(t) \in {"+", "-"} THEN Tail(t) ELSE t
        ds   == DigitPrefix(body)
    IN  IF ds = <<>> THEN NaN
        ELSE [nan |-> FALSE,
              val |-> IF neg THEN 0 - DecimalValue(ds) ELSE DecimalValue(ds)]

isNaN(n) == n.nan

startsWith(s, prefix) ==
    Len(s) >= Len(prefix) /\ SubSeq(s, 1, Len(prefix)) = prefix

(***************************************************************************)
(* Message texts are sequences of tokens: the literal pieces of a template *)
(* string and the values interpolated between them.                        *)
(***************************************************************************)
Lit(s) == [lit |-> s]

Num(n) == [num |-> n]

Chars(s) == [chars |-> s]

Text(s) == [text |-> s]

ADDRESS == "0x914d7Fec6aaC8cd542e72Bca78B30650d45643d7"

\* the comment header of every PredeploymentError (its emoji left out)
ErrorPrefix == Lit("**Error:**<br>")

\* class PredeploymentError: name, message, comment
PredeploymentError(message, comment) ==
    [name |-> "PredeploymentError", message |-> message, comment |-> comment]

\* new Error(message)
PlainError(name, message) ==
    [name |-> name, message |-> message, comment |-> <<>>]

NoError == [name |-> "none", message |-> <<>>, comment |-> <<>>]

NotProvidedText ==
    <<Lit("Chain ID not provided"),
      Lit(". Please set the CHAIN_ID environment variable.")>>

InvalidText(value) ==
    <<Lit("Invalid chain ID"), Lit(": \""), Chars(value),
      Lit("\". Chain ID must be a positive integer.")>>

AlreadyExistsText(id) ==
    <<Lit("Artifact already exists"), Lit(" for chain ID "), Num(id), Lit(".")>>

NotListedText(id) ==
    <<Lit("Chain "), Num(id), Lit(" is not listed in the chainlist"),
      Lit(". For more information on how to add a chain, please refer to the chainlist documentation")>>

MismatchText(expected, actual) ==
    <<Lit("Chain ID mismatch"), Lit(". Expected "), Num(expected),
      Lit(", but RPC returned "), Num(actual), Lit(".")>>

NotDeployedText ==
    <<Lit("The Safe Singleton Factory is not deployed at "), Lit(ADDRESS),
      Lit(". This chain may not have the factory pre-installed.")>>

DifferentBytecodeText ==
    <<Lit("The contract at "), Lit(ADDRESS),
      Lit(" has different bytecode than expected"),
      Lit(". This may not be the Safe Singleton Factory.")>>

chainIdNotProvided(v) ==
    IF v = "explicit"
    THEN PredeploymentError(<<Lit("Chain ID not provided")>>,
                            <<ErrorPrefix>> \o NotProvidedText)
    ELSE PlainError("Error", NotProvidedText)

invalidChainId(v, value) ==
    IF v = "explicit"
    THEN PredeploymentError(<<Lit("Invalid chain ID")>>,
                            <<ErrorPrefix>> \o InvalidText(value))
    ELSE PlainError("Error", InvalidText(value))

artifactAlreadyExists(v, id) ==
    IF v = "explicit"
    THEN PredeploymentError(<<Lit("Artifact already exists")>>,
                            <<ErrorPrefix>> \o AlreadyExistsText(id))
    ELSE PlainError("Error", AlreadyExistsText(id))

chainNotListed(v, id) ==
    IF v = "explicit"
    THEN PredeploymentError(<<Lit("Chain not listed")>>,
                            (<<ErrorPrefix>> \o NotListedText(id))
                               \o <<Lit("Set SKIP_CHAINLIST_CHECK=true to bypass this check.")>>)
    ELSE PlainError("Error", NotListedText(id))

chainIdMismatch(v, expected, actual) ==
    IF v = "explicit"
    THEN PredeploymentError(<<Lit("Chain ID mismatch")>>,
                            <<ErrorPrefix>> \o MismatchText(expected, actual))
    ELSE PlainError("Error", MismatchText(expected, actual))

factoryNotDeployed(v) ==
    IF v = "explicit"
    THEN PredeploymentError(<<Lit("Factory not deployed")>>,
                            <<ErrorPrefix>> \o NotDeployedText)
    ELSE PlainError("Error", NotDeployedText)

factoryDifferentBytecode(v) ==
    IF v = "explicit"
    THEN PredeploymentError(<<Lit("Factory different bytecode")>>,
                            <<ErrorPrefix>> \o DifferentBytecodeText)
    ELSE PlainError("Error", DifferentBytecodeText)

\* mutant: the thrown message leaves the status out
httpErrorNoStatus(status) ==
    PlainError("Error", <<Lit("HTTP error retrieving chain list.")>>)

\* new Error(`HTTP ${status} error retrieving chain list.`)
httpError(status) ==
    PlainError("Error",
               <<Lit("HTTP "), Num(status), Lit(" error retrieving chain list.")>>)

\* errors raised by the runtime and the libraries, not by the scripts
fetchFailed == PlainError("TypeError", <<Lit("fetch failed")>>)

jsonSyntaxError == PlainError("SyntaxError", <<Lit("Unexpected token in JSON")>>)

rpcCallFailed == PlainError("Error", <<Lit("could not detect network")>>)

fsError(syscall) == PlainError("Error", <<Lit("EACCES: permission denied, "), Lit(syscall)>>)

\* `${error}` : Error.prototype.toString() is name + ": " + message
ErrorToString(e) == <<Lit(e.name), Lit(": ")>> \o e.message

(***************************************************************************)
(* The outside world: environment values, the chainlist server, the node   *)
(***************************************************************************)
ChainIdInputs ==
    { Unset,
      EnvStr(<<>>),
      EnvStr(<<"a", "b", "c">>),
      EnvStr(<<"0">>),
      EnvStr(<<"-", "5">>),
      EnvStr(<<"1">>),
      EnvStr(<<"2">>),
      EnvStr(<<"1", "a">>),
      EnvStr(<<"1", ".", "5">>) }

HttpUrl == <<"h", "t", "t", "p", ":", "/", "/", "a">>

HttpsUrl == <<"h", "t", "t", "p", "s", ":", "/", "/", "b">>

WssUrl == <<"w", "s", "s", ":", "/", "/", "c">>

Urls == {HttpUrl, HttpsUrl, WssUrl}

RpcInputs == {Unset, EnvStr(<<>>), EnvStr(HttpUrl)}

SkipInputs == {Unset, EnvStr(<<"t", "r", "u", "e">>), EnvStr(<<"T", "R", "U", "E">>)}

SummaryFileInputs == {Unset, EnvStr(<<>>), EnvStr(<<"s", ".", "j", "s", "o", "n">>)}

\* chain ids that chainlist entries and nodes report
RegistryIds == {1, 2}

SeqsUpTo(S, n) == UNION {[1..k -> S] : k \in 0..n}

\* type ChainData = { chainId: number; rpc?: string[] }
NoRpcField == [present |-> FALSE, list |-> <<>>]

RpcFields ==
    {NoRpcField} \cup {[present |-> TRUE, list |-> l] : l \in SeqsUpTo(Urls, MaxRpcLen)}

\* the explicit variant declares Chainlist = { chainId: number }[]
ChainData(v) ==
    [chainId : RegistryIds, rpc : IF v = "registry" THEN RpcFields ELSE {NoRpcField}]

Chainlists(v) == SeqsUpTo(ChainData(v), MaxRegistryLen)

Bodies == {"Internal Server Error", "Not Found"}

ErrorStatuses == {404, 500}

NoResponse == [kind |-> "none", status |-> 0, body |-> "", valid |-> FALSE, json |-> <<>>]

\* what fetch() can give: a rejected promise, a non-2xx response with a text
\* body, a 200 response whose body is not a JSON array, a 200 with a chainlist
Responses(v) ==
    {[kind |-> "networkError", status |-> 0, body |-> "", valid |-> FALSE, json |-> <<>>]}
    \cup {[kind |-> "http", status |-> s, body |-> b, valid |-> FALSE, json |-> <<>>] :
             s \in ErrorStatuses, b \in Bodies}
    \cup {[kind |-> "http", status |-> 200, body |-> "", valid |-> FALSE, json |-> <<>>]}
    \cup {[kind |-> "http", status |-> 200, body |-> "", valid |-> TRUE, json |-> l] :
             l \in Chainlists(v)}

\* Response.ok
ResponseOk(r) == r.status \in 200..299

EmptyCode == <<>>

FactoryBytecode == <<"60", "80">>

OtherBytecode == <<"60", "00">>

Bytecodes == {EmptyCode, FactoryBytecode, OtherBytecode}

\* ethers.utils.hexDataLength: the number of bytes of a hex string
hexDataLength(code) == Len(code)

\* ethers.utils.keccak256, taken as collision free
keccak256(code) == [keccak256 |-> code]

CODEHASH == keccak256(FactoryBytecode)

NoNode == [failure |-> "unused", chainId |-> 0, code |-> EmptyCode]

\* what the JSON-RPC endpoint can give: getNetwork rejects, getNetwork answers
\* and getCode rejects, or both answer
Nodes ==
    {[failure |-> "getNetwork", chainId |-> 0, code |-> EmptyCode]}
    \cup {[failure |-> "getCode", chainId |-> n, code |-> EmptyCode] : n \in RegistryIds}
    \cup {[failure |-> "none", chainId |-> n, code |-> c] : n \in RegistryIds, c \in Bytecodes}

(***************************************************************************)
(* The pure parts of the scripts                                           *)
(***************************************************************************)
\* mutant: the bytecode hash is not compared
verifyPredeploymentNoHash(v, n, expectedChainId) ==
    IF n.failure = "getNetwork" THEN rpcCallFailed
    ELSE IF n.chainId # expectedChainId
         THEN chainIdMismatch(v, expectedChainId, n.chainId)
    ELSE IF n.failure = "getCode" THEN rpcCallFailed
    ELSE IF hexDataLength(n.code) = 0 THEN factoryNotDeployed(v)
    ELSE NoError

\* verifyPredeployment: the error it throws against node n, NoError if none
verifyPredeployment(v, n, expectedChainId) ==
    IF n.failure = "getNetwork" THEN rpcCallFailed
    ELSE IF n.chainId # expectedChainId
         THEN chainIdMismatch(v, expectedChainId, n.chainId)
    ELSE IF n.failure = "getCode" THEN rpcCallFailed
    ELSE IF hexDataLength(n.code) = 0 THEN factoryNotDeployed(v)
    ELSE IF keccak256(n.code) # CODEHASH THEN factoryDifferentBytecode(v)
    ELSE NoError

NoLog == [logged |-> FALSE, status |-> 0, body |-> ""]

\* fetchChainlist: the error it throws (NoError if none), the list it returns
\* and the object it logs
fetchChainlist(r) ==
    IF r.kind = "networkError"
    THEN [error |-> fetchFailed, chainlist |-> <<>>, log |-> NoLog]
    ELSE IF ~ResponseOk(r)
    THEN [error |-> httpError(r.status), chainlist |-> <<>>,
          log |-> [logged |-> TRUE, status |-> r.status, body |-> r.body]]
    ELSE IF ~r.valid
    THEN [error |-> jsonSyntaxError, chainlist |-> <<>>, log |-> NoLog]
    ELSE [error |-> NoError, chainlist |-> r.json, log |-> NoLog]

\* mutant: every chain counts as listed
onChainlistAlways(chainlist, id) == TRUE

\* chainlist.some((item) => item.chainId === chainId)
onChainlist(chainlist, id) == \E i \in 1..Len(chainlist) : chainlist[i].chainId = id

NoChainData == [found |-> FALSE, item |-> [chainId |-> 0, rpc |-> NoRpcField]]

\* chainlist.find((item) => item.chainId === chainId)
RECURSIVE find(_, _)
find(chainlist, id) ==
    IF chainlist = <<>> THEN NoChainData
    ELSE IF Head(chainlist).chainId = id THEN [found |-> TRUE, item |-> Head(chainlist)]
    ELSE find(Tail(chainlist), id)

HttpScheme == <<"h", "t", "t", "p", ":", "/", "/">>

HttpsScheme == <<"h", "t", "t", "p", "s", ":", "/", "/">>

RECURSIVE FirstHttpRpc(_)
FirstHttpRpc(list) ==
    IF list = <<>> THEN Unset
    ELSE IF startsWith(Head(list), HttpScheme) \/ startsWith(Head(list), HttpsScheme)
         THEN EnvStr(Head(list))
    ELSE FirstHttpRpc(Tail(list))

\* mutant: the first URL of the list, whatever its scheme
getFirstRpcFromChainData(chainData) ==
    IF ~chainData.rpc.present \/ Len(chainData.rpc.list) = 0 THEN Unset
    ELSE EnvStr(Head(chainData.rpc.list))

\* getRpcFromChainData: the URL, or Unset for null
getRpcFromChainData(chainData) ==
    IF ~chainData.rpc.present \/ Len(chainData.rpc.list) = 0 THEN Unset
    ELSE FirstHttpRpc(chainData.rpc.list)

\* mutant: any value of the variable other than unset skips the check
skipChainlistCheckAnySet(e) == e.set

\* process.env.SKIP_CHAINLIST_CHECK === "true"
skipChainlistCheck(e) == e.set /\ e.v = <<"t", "r", "u", "e">>

(***************************************************************************)
(* The file system                                                         *)
(***************************************************************************)
ArtifactsRoot == <<"artifacts">>

\* path.join(__dirname, "..", "artifacts", `${chainId}`)
artifactDir(id) == ArtifactsRoot \o <<ToString(id)>>

\* path.join(artifactDir, "deployment.json")
artifactPath(id) == artifactDir(id) \o <<"deployment.json">>

existsSync(path) == path \in dirs \/ path \in DOMAIN files

\* mutant: the guard never fires
artifactExistsNever(id) == FALSE

\* mutant: the guard tests the directory
artifactDirExists(id) == existsSync(artifactDir(id))

\* the Duplicate Artifact Guard: fs.existsSync(artifactPath)
artifactExists(id) == existsSync(artifactPath(id))

PREDEPLOYMENT_ARTIFACT ==
    [gasPrice |-> 0, gasLimit |-> 0,
     signerAddress |-> "0x0000000000000000000000000000000000000000",
     transaction |-> "0x", address |-> ADDRESS]

\* JSON.stringify(PREDEPLOYMENT_ARTIFACT, null, "\t") + "\n"
ArtifactContent == [json |-> PREDEPLOYMENT_ARTIFACT, indent |-> "tab", tail |-> "newline"]

NoSummaryOut == [written |-> FALSE, json |-> <<>>, success |-> FALSE]

\* JSON.stringify(summary, null, 2)
SummaryJson(s) == [written |-> TRUE, json |-> s.message, success |-> s.success]

(***************************************************************************)
(* addPredeployment: summary construction                                  *)
(***************************************************************************)
InitialSummary == [message |-> <<Lit("An unexpected error occurred")>>, success |-> FALSE]

SuccessSummary(v, chainIdStr) ==
    [message |-> <<Lit(IF v = "explicit" THEN "**Success:**<br>" ELSE "Success: "),
                   Lit("Pre-deployment artifact added for chain ID "), Chars(chainIdStr),
                   Lit(". The Safe Singleton Factory is pre-installed on this network.")>>,
     success |-> TRUE]

\* the catch block
FailureSummary(v, e) ==
    [message |->
        IF v = "explicit"
        THEN IF e.name = "PredeploymentError" THEN e.comment
             ELSE <<ErrorPrefix,
                    Lit("Unexpected error adding pre-deployment.<br>Error Details: ")>>
                  \o ErrorToString(e)
        ELSE e.message,
     success |-> FALSE]

\* if (!summary.success) { process.exitCode = 1; }
setExitCode(s, code) == IF ~s.success THEN 1 ELSE code

(***************************************************************************)
(* State machine                                                           *)
(***************************************************************************)
Variants == {"explicit", "registry"}

\* positions inside verifyAndAddPredeployment
PipelinePcs == {"chainId", "guard", "rpc", "verify", "chainlist", "mkdir", "write"}

\* positions at which no invocation is running
RestPcs == {"ready", "done", "escaped", "killed"}

\* positions at which the invocation is over and the process is about to go
EndPcs == {"done", "escaped", "killed"}

Init ==
    /\ pc = "ready"
    /\ variant = "explicit"
    /\ CHAIN_ID = Unset
    /\ RPC = Unset
    /\ SKIP_CHAINLIST_CHECK = Unset
    /\ SUMMARY_FILE = Unset
    /\ chainId = 0
    /\ rpcUrl = Unset
    /\ response = NoResponse
    /\ node = NoNode
    /\ error = NoError
    /\ summary = InitialSummary
    /\ console = NoLog
    /\ summaryOut = NoSummaryOut
    /\ exitCode = 0
    /\ dirs = {ArtifactsRoot}
    /\ files = <<>>
    /\ dirsAtStart = {ArtifactsRoot}
    /\ filesAtStart = <<>>
    /\ passed = {}
    /\ wrote = FALSE

\* throw e inside verifyAndAddPredeployment
Throw(e) ==
    /\ error' = e
    /\ pc' = "catch"

\* a new process runs one of the two scripts: dotenv.config() and the
\* declaration of summary.  The environment is fixed from here on; each of
\* its variables enters the state where the script reads it.
Start ==
    /\ pc = "ready"
    /\ \E v \in Variants : variant' = v
    /\ CHAIN_ID' = Unset
    /\ RPC' = Unset
    /\ SKIP_CHAINLIST_CHECK' = Unset
    /\ SUMMARY_FILE' = Unset
    /\ pc' = "chainId"
    /\ chainId' = 0
    /\ rpcUrl' = Unset
    /\ response' = NoResponse
    /\ node' = NoNode
    /\ error' = NoError
    /\ summary' = InitialSummary
    /\ console' = NoLog
    /\ summaryOut' = NoSummaryOut
    /\ exitCode' = 0
    /\ dirsAtStart' = dirs
    /\ filesAtStart' = files
    /\ passed' = {}
    /\ wrote' = FALSE
    /\ UNCHANGED <<dirs, files>>

\* the Chain Identifier Validator
ValidateChainId ==
    /\ pc = "chainId"
    /\ \E chainIdStr \in ChainIdInputs :
          /\ CHAIN_ID' = chainIdStr
          /\ IF ~Truthy(chainIdStr)
             THEN /\ Throw(chainIdNotProvided(variant))
                  /\ UNCHANGED <<chainId, passed>>
             ELSE LET n == parseInt(chainIdStr.v)
                  IN  IF isNaN(n) \/ n.val <= 0
                      THEN /\ Throw(invalidChainId(variant, chainIdStr.v))
                           /\ UNCHANGED <<chainId, passed>>
                      ELSE /\ chainId' = n.val
                           /\ passed' = passed \cup {"chainId"}
                           /\ pc' = "guard"
                           /\ UNCHANGED error
    /\ UNCHANGED <<variant, RPC, SKIP_CHAINLIST_CHECK, SUMMARY_FILE,
                   rpcUrl, response, node, summary, console, summaryOut,
                   exitCode, dirs, files, dirsAtStart, filesAtStart, wrote>>

\* the Duplicate Artifact Guard
DuplicateGuard ==
    /\ pc = "guard"
    /\ IF artifactExists(chainId)
       THEN /\ Throw(artifactAlreadyExists(variant, chainId))
            /\ UNCHANGED passed
       ELSE /\ passed' = passed \cup {"guard"}
            /\ pc' = IF variant = "explicit" THEN "rpc" ELSE "chainlist"
            /\ UNCHANGED error
    /\ UNCHANGED <<variant, CHAIN_ID, RPC, SKIP_CHAINLIST_CHECK, SUMMARY_FILE,
                   chainId, rpcUrl, response, node, summary, console,
                   summaryOut, exitCode, dirs, files, dirsAtStart,
                   filesAtStart, wrote>>

\* explicit variant: const rpcUrl = process.env.RPC; if (rpcUrl) ... else warn
ResolveRpcFromEnv ==
    /\ pc = "rpc"
    /\ variant = "explicit"
    /\ \E url \in RpcInputs :
          /\ RPC' = url
          /\ rpcUrl' = url
          /\ pc' = IF Truthy(url) THEN "verify" ELSE "chainlist"
    /\ UNCHANGED <<variant, CHAIN_ID, SKIP_CHAINLIST_CHECK, SUMMARY_FILE,
                   chainId, response, node, error, summary, console,
                   summaryOut, exitCode, dirs, files, dirsAtStart,
                   filesAtStart, passed, wrote>>

\* registry variant: const rpcUrl = getRpcFromChainData(chainData)
ResolveRpcFromChainlist ==
    /\ pc = "rpc"
    /\ variant = "registry"
    /\ LET url == getRpcFromChainData(find(response.json, chainId).item)
       IN  /\ rpcUrl' = url
           /\ pc' = IF Truthy(url) THEN "verify" ELSE "mkdir"
    /\ UNCHANGED <<variant, CHAIN_ID, RPC, SKIP_CHAINLIST_CHECK, SUMMARY_FILE,
                   chainId, response, node, error, summary, console,
                   summaryOut, exitCode, dirs, files, dirsAtStart,
                   filesAtStart, passed, wrote>>

\* await verifyPredeployment(rpcUrl, chainId)
VerifyPredeployment ==
    /\ pc = "verify"
    /\ \E n \in Nodes :
          /\ node' = n
          /\ LET e == verifyPredeployment(variant, n, chainId)
             IN  IF e.name # "none"
                 THEN /\ Throw(e)
                      /\ UNCHANGED passed
                 ELSE /\ passed' = passed \cup {"onchain"}
                      /\ pc' = IF variant = "explicit" THEN "chainlist" ELSE "mkdir"
                      /\ UNCHANGED error
    /\ UNCHANGED <<variant, CHAIN_ID, RPC, SKIP_CHAINLIST_CHECK, SUMMARY_FILE,
                   chainId, rpcUrl, response, summary, console, summaryOut,
                   exitCode, dirs, files, dirsAtStart, filesAtStart, wrote>>

\* explicit variant: the chainlist check with its bypass
ChainlistCheckExplicit ==
    /\ pc = "chainlist"
    /\ variant = "explicit"
    /\ \E flag \in SkipInputs :
          /\ SKIP_CHAINLIST_CHECK' = flag
          /\ IF skipChainlistCheck(flag)
             THEN /\ pc' = "mkdir"
                  /\ UNCHANGED <<response, console, error, passed>>
             ELSE \E r \in Responses(variant) :
                     LET f == fetchChainlist(r)
                     IN  /\ response' = r
                         /\ console' = f.log
                         /\ IF f.error.name # "none"
                            THEN /\ Throw(f.error)
                                 /\ UNCHANGED passed
                            ELSE IF ~onChainlist(f.chainlist, chainId)
                            THEN /\ Throw(chainNotListed(variant, chainId))
                                 /\ UNCHANGED passed
                            ELSE /\ passed' = passed \cup {"registry"}
                                 /\ pc' = "mkdir"
                                 /\ UNCHANGED error
    /\ UNCHANGED <<variant, CHAIN_ID, RPC, SUMMARY_FILE,
                   chainId, rpcUrl, node, summary, summaryOut, exitCode, dirs,
                   files, dirsAtStart, filesAtStart, wrote>>

\* registry variant: the chainlist check, always made
ChainlistCheckRegistry ==
    /\ pc = "chainlist"
    /\ variant = "registry"
    /\ \E r \in Responses(variant) :
          LET f == fetchChainlist(r)
          IN  /\ response' = r
              /\ console' = f.log
              /\ IF f.error.name # "none"
                 THEN /\ Throw(f.error)
                      /\ UNCHANGED passed
                 ELSE IF ~find(f.chainlist, chainId).found
                 THEN /\ Throw(chainNotListed(variant, chainId))
                      /\ UNCHANGED passed
                 ELSE /\ passed' = passed \cup {"registry"}
                      /\ pc' = "rpc"
                      /\ UNCHANGED error
    /\ UNCHANGED <<variant, CHAIN_ID, RPC, SKIP_CHAINLIST_CHECK, SUMMARY_FILE,
                   chainId, rpcUrl, node, summary, summaryOut, exitCode, dirs,
                   files, dirsAtStart, filesAtStart, wrote>>

\* if (!fs.existsSync(artifactDir)) fs.mkdirSync(artifactDir, {recursive: true})
\* mkdirSync either creates the directory or throws
MakeArtifactDir ==
    /\ pc = "mkdir"
    /\ IF existsSync(artifactDir(chainId))
       THEN /\ pc' = "write"
            /\ UNCHANGED <<dirs, error>>
       ELSE \/ /\ dirs' = dirs \cup {ArtifactsRoot, artifactDir(chainId)}
               /\ pc' = "write"
               /\ UNCHANGED error
            \/ /\ Throw(fsError("mkdir"))
               /\ UNCHANGED dirs
    /\ UNCHANGED <<variant, CHAIN_ID, RPC, SKIP_CHAINLIST_CHECK, SUMMARY_FILE,
                   chainId, rpcUrl, response, node, summary, console,
                   summaryOut, exitCode, files, dirsAtStart, filesAtStart,
                   passed, wrote>>

\* fs.writeFileSync(artifactPath, ...): writes the file or throws
WriteArtifact ==
    /\ pc = "write"
    /\ \/ /\ files' = (artifactPath(chainId) :> ArtifactContent) @@ files
          /\ wrote' = TRUE
          /\ pc' = "success"
          /\ UNCHANGED error
       \/ /\ Throw(fsError("open"))
          /\ UNCHANGED <<files, wrote>>
    /\ UNCHANGED <<variant, CHAIN_ID, RPC, SKIP_CHAINLIST_CHECK, SUMMARY_FILE,
                   chainId, rpcUrl, response, node, summary, console,
                   summaryOut, exitCode, dirs, dirsAtStart, filesAtStart,
                   passed>>

\* the rest of the try block, after verifyAndAddPredeployment returned
Succeed ==
    /\ pc = "success"
    /\ summary' = SuccessSummary(variant, CHAIN_ID.v)
    /\ pc' = "finally"
    /\ UNCHANGED <<variant, CHAIN_ID, RPC, SKIP_CHAINLIST_CHECK, SUMMARY_FILE,
                   chainId, rpcUrl, response, node, error, console,
                   summaryOut, exitCode, dirs, files, dirsAtStart,
                   filesAtStart, passed, wrote>>

\* the catch block
Catch ==
    /\ pc = "catch"
    /\ summary' = FailureSummary(variant, error)
    /\ pc' = "finally"
    /\ UNCHANGED <<variant, CHAIN_ID, RPC, SKIP_CHAINLIST_CHECK, SUMMARY_FILE,
                   chainId, rpcUrl, response, node, error, console,
                   summaryOut, exitCode, dirs, files, dirsAtStart,
                   filesAtStart, passed, wrote>>

\* the finally block: the summary file is written before the exit code is
\* set, and writeFileSync either writes or throws; nothing catches what it
\* throws, so the exception leaves addPredeployment (pc "escaped")
Finally ==
    /\ pc = "finally"
    /\ \E summaryFile \in SummaryFileInputs :
          /\ SUMMARY_FILE' = summaryFile
          /\ IF Truthy(summaryFile)
             THEN \/ /\ summaryOut' = SummaryJson(summary)
                     /\ exitCode' = setExitCode(summary, exitCode)
                     /\ pc' = "done"
                  \/ /\ pc' = "escaped"
                     /\ UNCHANGED <<summaryOut, exitCode>>
             ELSE /\ exitCode' = setExitCode(summary, exitCode)
                  /\ pc' = "done"
                  /\ UNCHANGED summaryOut
    /\ UNCHANGED <<variant, CHAIN_ID, RPC, SKIP_CHAINLIST_CHECK, error,
                   chainId, rpcUrl, response, node, summary, console, dirs,
                   files, dirsAtStart, filesAtStart, passed, wrote>>

\* the process is killed while verifyAndAddPredeployment runs
Interrupt ==
    /\ pc \in PipelinePcs
    /\ pc' = "killed"
    /\ UNCHANGED <<variant, CHAIN_ID, RPC, SKIP_CHAINLIST_CHECK, SUMMARY_FILE,
                   chainId, rpcUrl, response, node, error, summary, console,
                   summaryOut, exitCode, dirs, files, dirsAtStart,
                   filesAtStart, passed, wrote>>

\* the process is gone: only the disk remains
ProcessExit ==
    /\ pc \in EndPcs
    /\ pc' = "ready"
    /\ variant' = "explicit"
    /\ CHAIN_ID' = Unset
    /\ RPC' = Unset
    /\ SKIP_CHAINLIST_CHECK' = Unset
    /\ SUMMARY_FILE' = Unset
    /\ chainId' = 0
    /\ rpcUrl' = Unset
    /\ response' = NoResponse
    /\ node' = NoNode
    /\ error' = NoError
    /\ summary' = InitialSummary
    /\ console' = NoLog
    /\ summaryOut' = NoSummaryOut
    /\ exitCode' = 0
    /\ dirsAtStart' = dirs
    /\ filesAtStart' = files
    /\ passed' = {}
    /\ wrote' = FALSE
    /\ UNCHANGED <<dirs, files>>

Next ==
    \/ Start
    \/ ValidateChainId
    \/ DuplicateGuard
    \/ ResolveRpcFromEnv
    \/ ResolveRpcFromChainlist
    \/ VerifyPredeployment
    \/ ChainlistCheckExplicit
    \/ ChainlistCheckRegistry
    \/ MakeArtifactDir
    \/ WriteArtifact
    \/ Succeed
    \/ Catch
    \/ Finally
    \/ Interrupt
    \/ ProcessExit

Spec == Init /\ [][Next]_vars

TypeOK ==
    /\ pc \in PipelinePcs \cup RestPcs \cup {"success", "catch", "finally"}
    /\ variant \in Variants
    /\ exitCode \in {0, 1}
    /\ wrote \in BOOLEAN
    /\ passed \subseteq {"chainId", "guard", "onchain", "registry"}

(***************************************************************************)
(* Vocabulary of the properties                                            *)
(***************************************************************************)
\* addPredeployment has returned or thrown (the process was not killed)
RunOver == pc \in {"done", "escaped"}

SummaryMentions(token) ==
    \E i \in 1..Len(summary.message) : summary.message[i] = token

\* the validator, as the script computes it, accepts the CHAIN_ID it read
ChainIdAccepted ==
    /\ Truthy(CHAIN_ID)
    /\ ~isNaN(parseInt(CHAIN_ID.v))
    /\ parseInt(CHAIN_ID.v).val > 0

\* no artifact file for the target existed when the run started
GuardOk == artifactPath(chainId) \notin DOMAIN filesAtStart

\* a chainlist was fetched and it has an entry for the target
RegistryFetched == response.kind = "http" /\ ResponseOk(response) /\ response.valid

MatchingEntries == {i \in 1..Len(response.json) : response.json[i].chainId = chainId}

RegistryOk == RegistryFetched /\ MatchingEntries # {}

MinOf(S) == CHOOSE i \in S : \A j \in S : i <= j

\* the rpc list of the first entry for the target, <<>> when it has none
MatchedRpcList ==
    IF MatchingEntries = {} THEN <<>>
    ELSE LET e == response.json[MinOf(MatchingEntries)]
         IN  IF e.rpc.present THEN e.rpc.list ELSE <<>>

IsHttpUrl(u) == startsWith(u, HttpScheme) \/ startsWith(u, HttpsScheme)

HttpIndexes == {i \in 1..Len(MatchedRpcList) : IsHttpUrl(MatchedRpcList[i])}

\* the registry check is enabled
RegistryEnabled ==
    variant = "registry" \/ SKIP_CHAINLIST_CHECK # EnvStr(<<"t", "r", "u", "e">>)

\* an RPC endpoint is available
RpcAvailable ==
    IF variant = "explicit" THEN Truthy(RPC) ELSE RegistryOk /\ HttpIndexes # {}

\* the node passes the three checks for the target
OnchainOk ==
    /\ node.failure = "none"
    /\ node.chainId = chainId
    /\ node.code # EmptyCode
    /\ keccak256(node.code) = CODEHASH

AllEnabledStepsOk ==
    /\ ChainIdAccepted
    /\ GuardOk
    /\ RpcAvailable => OnchainOk
    /\ RegistryEnabled => RegistryOk

\* mkdirSync or the artifact's writeFileSync threw
ArtifactIoFailed ==
    /\ error.name = "Error"
    /\ error.message[1] = Lit("EACCES: permission denied, ")

(***************************************************************************)
(* C1                                                                      *)
(***************************************************************************)
\* C1 as stated: a finished run wrote the artifact if and only if every
\* enabled validation step succeeded, and its summary has success = true
\* exactly when it wrote the artifact.
C1_WrittenIffValidated ==
    RunOver =>
        /\ wrote <=> AllEnabledStepsOk
        /\ summary.success <=> wrote

\* C1 amended: a finished run wrote the artifact if and only if every enabled
\* validation step succeeded and neither the directory creation nor the file
\* write threw; the write is the last step of the pipeline; the summary has
\* success = true exactly when the run wrote the artifact.
C1_WrittenIffValidatedAndIoOk ==
    /\ RunOver =>
          /\ wrote <=> (AllEnabledStepsOk /\ ~ArtifactIoFailed)
          /\ summary.success <=> wrote
    /\ wrote => pc \notin PipelinePcs

C1_Witness ==
    /\ RunOver /\ wrote /\ summary.success
    /\ artifactPath(chainId) \in DOMAIN files
    /\ files[artifactPath(chainId)] = ArtifactContent

(***************************************************************************)
(* C2                                                                      *)
(***************************************************************************)
\* C2: a run whose chain identifier already has an artifact file when it
\* starts fails with the "Artifact already exists" cause, whatever its other
\* inputs are, and no run writes or modifies a file that existed when it
\* started.
C2_NeverOverwrites ==
    /\ (RunOver /\ ChainIdAccepted /\ ~GuardOk) =>
          /\ ~summary.success
          /\ SummaryMentions(Lit("Artifact already exists"))
    /\ wrote => GuardOk
    /\ \A p \in DOMAIN filesAtStart :
          p \in DOMAIN files /\ files[p] = filesAtStart[p]

C2_Witness == RunOver /\ ChainIdAccepted /\ ~GuardOk /\ ~wrote

(***************************************************************************)
(* C3                                                                      *)
(***************************************************************************)
\* C3: no exception escapes addPredeployment.
C3_NoExceptionEscapes == pc # "escaped"

(***************************************************************************)
(* C4                                                                      *)
(***************************************************************************)
\* C4: when addPredeployment is over, process.exitCode is 1 exactly when the
\* summary has success = false and 0 exactly when it has success = true.
C4_ExitCodeMatchesSummary ==
    RunOver =>
        /\ exitCode = 1 <=> ~summary.success
        /\ exitCode = 0 <=> summary.success

(***************************************************************************)
(* C5                                                                      *)
(***************************************************************************)
\* an optional sign followed by one or more decimal digits and nothing else
IsIntegerLiteral(s) ==
    LET body == IF s # <<>> /\ Head(s) \in {"+", "-"} THEN Tail(s) ELSE s
    IN  body # <<>> /\ \A i \in 1..Len(body) : IsDigit(body[i])

ValidatorHasRun == pc \notin {"ready", "chainId"} /\ (pc = "killed" => CHAIN_ID.set)

\* C5: the validator accepts CHAIN_ID if and only if it is present, is a
\* base-10 integer literal and its value is > 0; an absent or empty value
\* fails with the "not provided" cause and every other rejected value with
\* the "invalid" cause; a rejected value leads to no artifact.
C5_ValidatorAcceptsIntegerLiterals ==
    ValidatorHasRun =>
        /\ "chainId" \in passed <=>
              /\ Truthy(CHAIN_ID)
              /\ IsIntegerLiteral(CHAIN_ID.v)
              /\ parseInt(CHAIN_ID.v).val > 0
        /\ "chainId" \notin passed =>
              /\ ~wrote
              /\ error.message[1] =
                    IF Truthy(CHAIN_ID) THEN Lit("Invalid chain ID")
                    ELSE Lit("Chain ID not provided")

(***************************************************************************)
(* C6                                                                      *)
(***************************************************************************)
\* verifyPredeployment was called and the node answered getNetwork
NodeAnswered == node.failure \in {"none", "getCode"}

\* C6: when an RPC endpoint is used, the artifact is written only if the
\* reported chain id equals the target, the bytecode is non-empty and its
\* hash equals CODEHASH; a differing id fails the run with the mismatch
\* cause, then empty code with the not-deployed cause, then a differing hash
\* with the different-bytecode cause, and none of these runs writes.
C6_OnchainChecksGateTheWrite ==
    /\ (node.failure # "unused" /\ wrote) => OnchainOk
    /\ (RunOver /\ NodeAnswered /\ node.chainId # chainId) =>
          /\ ~summary.success /\ ~wrote
          /\ SummaryMentions(Lit("Chain ID mismatch"))
    /\ (RunOver /\ node.failure = "none" /\ node.chainId = chainId
           /\ node.code = EmptyCode) =>
          /\ ~summary.success /\ ~wrote
          /\ SummaryMentions(Lit("The Safe Singleton Factory is not deployed at "))
    /\ (RunOver /\ node.failure = "none" /\ node.chainId = chainId
           /\ node.code # EmptyCode /\ keccak256(node.code) # CODEHASH) =>
          /\ ~summary.success /\ ~wrote
          /\ SummaryMentions(Lit(" has different bytecode than expected"))

C6_Witness ==
    /\ RunOver /\ wrote
    /\ node.failure = "none" /\ node.code = FactoryBytecode

(***************************************************************************)
(* C7                                                                      *)
(***************************************************************************)
NonOkFetch == response.kind = "http" /\ ~ResponseOk(response)

\* C7 as stated: after a non-2xx registry response the run fails, writes no
\* artifact, and the summary text includes the status code and the body.
C7_SummaryHasStatusAndBody ==
    (RunOver /\ NonOkFetch) =>
        /\ ~summary.success /\ ~wrote
        /\ SummaryMentions(Num(response.status))
        /\ SummaryMentions(Text(response.body))

\* C7 amended: after a non-2xx registry response the run fails, writes no
\* artifact, and the summary text includes the status code; the response
\* body is logged to the console with the status and is not in the summary.
C7_SummaryHasStatusBodyIsLogged ==
    /\ NonOkFetch =>
          /\ console = [logged |-> TRUE, status |-> response.status,
                        body |-> response.body]
          /\ ~wrote
    /\ (RunOver /\ NonOkFetch) =>
          /\ ~summary.success
          /\ SummaryMentions(Num(response.status))
          /\ ~SummaryMentions(Text(response.body))

C7_Witness == RunOver /\ NonOkFetch /\ response.status = 500

(***************************************************************************)
(* C8                                                                      *)
(***************************************************************************)
\* C8: when the registry check is enabled and the fetched registry has no
\* entry for the target, the run fails with the "not listed" cause and
\* writes nothing; with SKIP_CHAINLIST_CHECK = "true" the explicit variant
\* does not fetch the registry.
C8_UnlistedChainIsRejected ==
    /\ (RegistryEnabled /\ RegistryFetched /\ MatchingEntries = {}) =>
          /\ ~wrote
          /\ RunOver =>
                /\ ~summary.success
                /\ SummaryMentions(Lit(" is not listed in the chainlist"))
    /\ (variant = "explicit" /\ ~RegistryEnabled) => response = NoResponse

C8_Witness ==
    /\ RunOver /\ RegistryEnabled /\ RegistryFetched /\ MatchingEntries = {}
    /\ Len(response.json) > 0

(***************************************************************************)
(* C9                                                                      *)
(***************************************************************************)
\* the target's directory was on disk without its file when the run started
RetryAfterPartialWrite ==
    /\ "chainId" \in passed
    /\ artifactDir(chainId) \in dirsAtStart
    /\ artifactPath(chainId) \notin DOMAIN filesAtStart

\* C9: an interruption between mkdirSync and writeFileSync leaves the
\* directory without the file; a later run for the same identifier passes
\* the duplicate guard, creates no directory, and writes the artifact when
\* its validation steps succeed and the write does not throw.
C9_RetryAfterInterruptionIsSafe ==
    /\ (pc = "killed" /\ artifactDir(chainId) \in dirs \ dirsAtStart) =>
          artifactPath(chainId) \notin DOMAIN files
    /\ (RetryAfterPartialWrite /\ pc # "guard") =>
          /\ "guard" \in passed \/ pc = "killed"
          /\ ~SummaryMentions(Lit("Artifact already exists"))
          /\ dirs = dirsAtStart
          /\ (RunOver /\ AllEnabledStepsOk /\ ~ArtifactIoFailed) => wrote

C9_Witness ==
    /\ RunOver /\ RetryAfterPartialWrite /\ wrote
    /\ dirs = dirsAtStart
    /\ artifactPath(chainId) \in DOMAIN files

(***************************************************************************)
(* C10                                                                     *)
(***************************************************************************)
\* the registry variant has executed const rpcUrl = getRpcFromChainData(..)
RpcResolvedFromChainlist ==
    /\ variant = "registry"
    /\ "registry" \in passed
    /\ pc \notin {"rpc", "killed"}

\* C10: getRpcFromChainData returns the first element of the entry's rpc
\* list that begins with "http://" or "https://", and null exactly when the
\* list is absent, empty or has no such element; with null the on-chain
\* verification is skipped and the pipeline goes on to write the artifact.
C10_FirstHttpRpcOrNull ==
    RpcResolvedFromChainlist =>
        /\ HttpIndexes = {} => rpcUrl = Unset
        /\ HttpIndexes # {} => rpcUrl = EnvStr(MatchedRpcList[MinOf(HttpIndexes)])
        /\ rpcUrl = Unset =>
              /\ node = NoNode
              /\ pc # "verify"
              /\ (RunOver /\ ~ArtifactIoFailed) => (wrote /\ summary.success)

C10_Witness ==
    /\ RunOver /\ RpcResolvedFromChainlist /\ wrote
    /\ rpcUrl = Unset
    /\ Len(MatchedRpcList) > 0

====
